---- MODULE Spec2Model ----
(***************************************************************************)
(* State-machine model of the YUI CouchDB client (Y.Couch.Connect, DB,     *)
(* Document, View and their shared Y.Couch.Base).                          *)
(*                                                                         *)
(* Strings that end up in a URL are sequences of one-character strings, so *)
(* concatenation, substring and encodeURIComponent are computed.           *)
(* An optional value (undefined / unset attribute) is the empty set, a     *)
(* present value v is {v}.                                                 *)
(***************************************************************************)
EXTENDS Integers, Sequences, FiniteSets, TLC

VARIABLES
    conn,       \* the Y.Couch.Connect instance
    dbs,        \* the Y.Couch.DB instances, in creation order
    docs,       \* the Y.Couch.Document instances, in creation order
    views,      \* the Y.Couch.View instances, in creation order
    requests,   \* the requests in flight (sendRequest done, no callback yet), in issue order
    issued,     \* how many requests have been handed to sendRequest so far
    calls,      \* how many of them by a method call (the others by an initializer)
    delivered,  \* how many requests have had their outcome delivered
    sets,       \* how many times a caller has called set() on an instance
    last        \* what the most recent step did: a method call or a callback

vars == <<conn, dbs, docs, views, requests, issued, calls, delivered, sets, last>>

----------------------------------------------------------------------------
(* Bounds of the model *)

\* request-issuing method calls (the requests of initializers come on top):
\* a Connect, DB or View method issues a request while fewer than MaxCalls
\* calls have, a Document method while fewer than MaxDocCalls have (a save
\* needs the data an earlier open has fetched)
MaxCalls == 1
MaxDocCalls == 2
\* request outcomes delivered to callbacks
MaxDeliveries == 2
\* calls of set() by the caller
MaxSets == 2
\* instances the factory methods create
MaxDBs == 1
MaxDocs == 1
MaxViews == 1

----------------------------------------------------------------------------
(* Values *)

None == {}
Some(v) == {v}
Get(o) == CHOOSE v \in o : TRUE

\* JavaScript primitives: a type (as typeof / Y.Lang.isX sees it) and a text
JStr(s) == [type |-> "string", repr |-> s]
JNum(s) == [type |-> "number", repr |-> s]
JBool(b) == [type |-> "boolean", repr |-> IF b THEN "true" ELSE "false"]

HX == <<"h", "t", "t", "p", ":", "/", "/", "x">>
SLASH == <<"/">>

\* baseURI values handed to new Y.Couch.Connect({baseURI: ...})
BaseURIs == {HX, HX \o SLASH}
DbNames == {<<"d">>}
DocIds == {<<"1">>, <<"a", "/", "b">>}
ViewNames == {<<"v", "1">>}

\* Parsed JSON response bodies: the members the library reads, and a tag
BodyDoc == [kind |-> "object", _id |-> Some(<<"1">>), views |-> None, tag |-> "doc"]
BodyViews == [kind |-> "object", _id |-> None, views |-> Some(<<"v1", "v2">>),
              tag |-> "views"]
EmptyObject == [kind |-> "object", _id |-> None, views |-> None, tag |-> "{}"]
EmptyArray == [kind |-> "array", _id |-> None, views |-> None, tag |-> "[]"]
Bodies == {BodyDoc, BodyViews}

\* URL options objects given to open / save / fetchAllDocuments
OptRev == <<[key |-> <<"r", "e", "v">>, val |-> JStr(<<"2">>)]>>
Options == {None, Some(OptRev)}

----------------------------------------------------------------------------
(* Strings *)

\* encodeURIComponent on one character: the unreserved characters are kept,
\* every other one becomes its percent escape
EncodeChar(c) ==
    CASE c = "/" -> <<"%", "2", "F">>
      [] c = ":" -> <<"%", "3", "A">>
      [] c = "?" -> <<"%", "3", "F">>
      [] c = "=" -> <<"%", "3", "D">>
      [] c = "&" -> <<"%", "2", "6">>
      [] c = "%" -> <<"%", "2", "5">>
      [] c = " " -> <<"%", "2", "0">>
      [] OTHER -> <<c>>

RECURSIVE encodeURIComponent(_)
encodeURIComponent(s) ==
    IF s = <<>> THEN <<>> ELSE EncodeChar(Head(s)) \o encodeURIComponent(Tail(s))

\* Y.QueryString.stringify of a flat options object, with the override that
\* turns a boolean into "true"/"false": key=value pairs joined by "&"
RECURSIVE QueryString(_)
QueryString(pairs) ==
    IF pairs = <<>> THEN <<>>
    ELSE encodeURIComponent(Head(pairs).key) \o <<"=">> \o
         encodeURIComponent(Head(pairs).val.repr) \o
         (IF Len(pairs) > 1 THEN <<"&">> \o QueryString(Tail(pairs)) ELSE <<>>)

\* JavaScript truthiness of an optional string (undefined and "" are falsy)
Truthy(o) == o # None /\ Get(o) # <<>>

----------------------------------------------------------------------------
(* Events, requests, the record of the last call *)

EVENT_ERROR == "couch:error"
EVENT_INFO == "couch:info"
EVENT_FETCH_ALL == "couch:fetchAll"
EVENT_OPENED == "couch:opened"
EVENT_SAVED == "couch:saved"
EVENT_DELETED == "couch:deleted"
EVENT_DATA == "couch:data"

\* a fired event: its type and its payload ({response: ...} or {message: ...})
Evt(type, response, message) ==
    [type |-> type, response |-> response, message |-> message]

\* Y.Couch.Base._defErrorFn logs the message of each couch:error fired
ErrorLogs(fired) == Len(SelectSeq(fired, LAMBDA e : e.type = EVENT_ERROR))

\* variant: always the instance kept in the dataSource attribute
getDataSource_m(getNew, n) == 0

\* _getDataSource(getNew): a new transport (named by the request that gets
\* it) when getNew === true, otherwise the entity's shared dataSource (0)
getDataSource(getNew, n) == IF getNew = TRUE THEN n ELSE 0

Req(ent, op, method, url, data, doc, ds, cb) ==
    [ent |-> ent, op |-> op, method |-> method, url |-> url, data |-> data,
     doc |-> doc, ds |-> ds, callbacks |-> cb, by |-> "call"]

RetUndefined == [kind |-> "undefined", idx |-> 0, arr |-> <<>>]
RetNull == [kind |-> "null", idx |-> 0, arr |-> <<>>]
RetThrow == [kind |-> "throw", idx |-> 0, arr |-> <<>>]
RetDS(n) == [kind |-> "ds", idx |-> n, arr |-> <<>>]
RetEntity(i) == [kind |-> "entity", idx |-> i, arr |-> <<>>]
RetArray(a) == [kind |-> "array", idx |-> 0, arr |-> a]

\* a method call: what it returned, the events it fired, the error lines it
\* logged and the number of requests it issued
Call(op, ent, ret, fired, logs, nreq) ==
    [op |-> op, ent |-> ent, ret |-> ret, fired |-> fired, logs |-> logs,
     nreq |-> nreq, req |-> None, resp |-> None]

\* a callback of request r, called with the parsed body resp (success) or
\* with none (failure): the events it fired, the error lines logged
Callback(op, r, resp, fired, logs) ==
    [op |-> op, ent |-> r.ent, ret |-> RetUndefined, fired |-> fired,
     logs |-> logs, nreq |-> 0, req |-> Some(r), resp |-> resp]

----------------------------------------------------------------------------
(* Y.Attribute: set() and _set() of an attribute *)

\* this.set(name, val) on an attribute declared readOnly: allowed only while
\* the attribute has never had a value; this._set(name, val) always stores
AttrSet(readOnly, cur, val) == IF readOnly /\ cur # None THEN cur ELSE Some(val)
Attr_set(cur, val) == Some(val)

----------------------------------------------------------------------------
(* Y.Couch.Connect *)

\* variant: a setter that returns val as given
Connect_baseURISetter_m(val) == val

\* substring(length - 1) is the last character; one trailing "/" is dropped
Connect_baseURISetter(val) ==
    LET length == Len(val)
        lastChar == SubSeq(val, length, length)
    IN  IF lastChar = SLASH THEN SubSeq(val, 1, length - 1) ELSE val

\* attribute values after new Y.Couch.Connect({baseURI: b})
NewConnect(b) ==
    [baseURI |-> Connect_baseURISetter(b),
     databases |-> Some(EmptyArray),
     info |-> Some(EmptyObject)]

ConnectEnt == <<"connect", 1>>

\* the callbacks object of a fetch: the event fire()d by success, and the
\* message prefix of the couch:error fire()d by failure
Callbacks(successEvent, failureMessage) ==
    [success |-> Some(successEvent), failure |-> Some(failureMessage)]
NoCallbacks == [success |-> None, failure |-> None]

Connect_fetchInfo(c, getNew, n) ==
    Req(ConnectEnt, "fetchInfo", "GET", c.baseURI \o SLASH, <<>>, None,
        getDataSource(getNew, n),
        Callbacks(EVENT_INFO, "An error occurred fetching the information: "))

Connect_fetchAllDatabases(c, getNew, n) ==
    Req(ConnectEnt, "fetchAllDatabases", "GET",
        c.baseURI \o <<"/", "_", "a", "l", "l", "_", "d", "b", "s">>, <<>>, None,
        getDataSource(getNew, n),
        Callbacks(EVENT_FETCH_ALL, "An error occurred fetching the list of databases: "))

Connect_defInfoFn(c, response) == [c EXCEPT !.info = Attr_set(c.info, response)]
Connect_defFecthAllFn(c, response) ==
    [c EXCEPT !.databases = Attr_set(c.databases, response)]

\* replicate logs an error only when neither argument is a string
ReplicateLogs(source, target) ==
    IF source.type # "string" /\ target.type # "string" THEN 1 ELSE 0

\* requestConfig = requestConfig || {}; then source and target are assigned
ReplicateData(source, target, requestConfig) ==
    (IF requestConfig = None THEN <<>> ELSE Get(requestConfig)) \o
    <<[key |-> <<"s", "o", "u", "r", "c", "e">>, val |-> source],
      [key |-> <<"t", "a", "r", "g", "e", "t">>, val |-> target]>>

Connect_replicate(c, source, target, requestConfig, n) ==
    Req(ConnectEnt, "replicate", "POST",
        c.baseURI \o <<"/", "_", "r", "e", "p", "l", "i", "c", "a", "t", "e">>,
        ReplicateData(source, target, requestConfig), None,
        getDataSource(TRUE, n), NoCallbacks)

----------------------------------------------------------------------------
(* Y.Couch.DB *)

DBDefaults ==
    [baseURI |-> <<>>, name |-> <<>>, _uri |-> <<>>, info |-> None,
     documents |-> None]

DB_baseURISetter(d, val) ==
    [d EXCEPT !._uri = val \o SLASH \o d.name \o SLASH, !.baseURI = val]

\* variant: a setter that stores the name without recomputing _uri
DB_nameSetter_m(d, val) == [d EXCEPT !.name = val]

DB_nameSetter(d, val) ==
    [d EXCEPT !._uri = d.baseURI \o SLASH \o val \o SLASH, !.name = val]

\* attribute values after new Y.Couch.DB({baseURI: b, name: name})
NewDB(b, name) == DB_nameSetter(DB_baseURISetter(DBDefaults, b), name)

DB_fetchInfo(d, i, n) ==
    Req(<<"db", i>>, "fetchInfo", "GET", d._uri, <<>>, None,
        getDataSource(TRUE, n),
        Callbacks(EVENT_INFO,
                  "An error occurred fetching the information for the databases: "))

DB_fetchAllDocuments(d, i, options, n) ==
    Req(<<"db", i>>, "fetchAllDocuments", "GET",
        d._uri \o <<"_", "a", "l", "l", "_", "d", "o", "c", "s">>,
        IF options = None THEN <<>> ELSE Get(options), None,
        getDataSource(TRUE, n),
        Callbacks(EVENT_FETCH_ALL,
                  "An error occurred fetching the information for the databases: "))

DB_defInfoFn(d, response) == [d EXCEPT !.info = Attr_set(d.info, response)]
DB_defFecthAllFn(d, response) ==
    [d EXCEPT !.documents = Attr_set(d.documents, response)]

\* the requests a DB issues while it is constructed (initializer)
\* variant: an initializer that does not call fetchInfo
DB_initializer_m(d, i, n) == <<>>

DB_initializer(d, i, n) == <<[DB_fetchInfo(d, i, n) EXCEPT !.by = "initializer"]>>

----------------------------------------------------------------------------
(* Y.Couch.Document *)

\* infoResp is a history field: the response of the latest couch:info event
DocumentDefaults ==
    [baseURI |-> <<>>, databaseName |-> <<>>, id |-> <<>>, _uri |-> <<>>,
     info |-> None, data |-> None, infoResp |-> None]

Document_baseURISetter(d, val) ==
    [d EXCEPT !._uri = val \o SLASH \o d.databaseName \o SLASH \o d.id,
              !.baseURI = val]

Document_databaseNameSetter(d, val) ==
    [d EXCEPT !._uri = d.baseURI \o SLASH \o val \o SLASH \o d.id,
              !.databaseName = val]

Document_idSetter(d, val) ==
    LET enc == encodeURIComponent(val)
    IN  [d EXCEPT !._uri = d.baseURI \o SLASH \o d.databaseName \o SLASH \o enc,
                  !.id = enc]

\* attribute values after new Y.Couch.Document({baseURI, databaseName, id})
NewDocument(b, databaseName, id) ==
    Document_idSetter(
        Document_databaseNameSetter(
            Document_baseURISetter(DocumentDefaults, b), databaseName), id)

Document_fetchInfo(d, j, n) ==
    Req(<<"document", j>>, "fetchInfo", "GET", d._uri, <<>>, None,
        getDataSource(TRUE, n),
        Callbacks(EVENT_INFO,
                  "An error occurred fetching the information for the databases: "))

Document_open(d, j, options, n) ==
    Req(<<"document", j>>, "open", "GET", d._uri,
        IF options = None THEN <<>> ELSE Get(options), None,
        getDataSource(TRUE, n),
        Callbacks(EVENT_OPENED, "An error occurred opening the document: "))

\* if (!documentData || !documentData._id): nothing to save
SaveHasId(data) == data # None /\ Truthy(Get(data)._id)

\* url = this._uri; url += encodeURIComponent(documentData._id)
SaveUrl(d) == d._uri \o encodeURIComponent(Get(Get(d.data)._id))

Document_save(d, j, n) ==
    Req(<<"document", j>>, "save", "PUT", SaveUrl(d), <<>>, d.data,
        getDataSource(TRUE, n),
        Callbacks(EVENT_SAVED, "An error occurred opening the document: "))

\* _defInfoFn stores through the public set(); info is declared readOnly
Document_defInfoFn(d, response) ==
    [d EXCEPT !.info = AttrSet(TRUE, d.info, response),
              !.infoResp = Some(response)]

\* variant: the response stored through the public set(), as _defInfoFn does
Document_defOpenedFn_m(d, response) ==
    [d EXCEPT !.data = AttrSet(TRUE, d.data, response)]

Document_defOpenedFn(d, response) == [d EXCEPT !.data = Attr_set(d.data, response)]
Document_defSavedFn(d, response) == d

\* variant: an initializer that only publishes the events
Document_initializer_m(d, j, n) == <<>>

\* the requests a Document issues while it is constructed (initializer)
Document_initializer(d, j, n) ==
    <<[Document_fetchInfo(d, j, n) EXCEPT !.by = "initializer"]>>

\* variant: the event name given as the literal 'EVENT_ERROR', as in getAllViews
SaveFailFired_m(d) ==
    <<Evt("EVENT_ERROR", None, "No data found on the document to save.")>>

\* save without data._id: this.fire(EVENT_ERROR, {message: ...})
SaveFailFired(d) ==
    <<Evt(EVENT_ERROR, None, "No data found on the document to save.")>>

\* getAllViews: the event it fires and the array it returns
GetAllViewsFails(d) == d.info = None \/ Get(d.info).views = None
GetAllViewsFired(d) ==
    IF GetAllViewsFails(d)
    THEN <<Evt("EVENT_ERROR", None,
               "There is no information for this document available.")>>
    ELSE <<>>
GetAllViewsResult(d) ==
    IF GetAllViewsFails(d) THEN <<>> ELSE Get(Get(d.info).views)

----------------------------------------------------------------------------
(* Y.Couch.View *)

\* the CouchDB view parameters, in the order ATTRS declares them
ViewParamOrder ==
    <<"descending", "endkey", "endkey_docid", "group", "group_level",
      "include_docs", "inclusive_end", "key", "limit", "reduce", "skip",
      "stale", "startkey", "startkey_docid">>
ViewParams == {ViewParamOrder[k] : k \in 1..Len(ViewParamOrder)}

\* every attribute getAttrs() returns: Y.Base's, Y.Couch.Base's, the View's
AttrOrder ==
    <<"destroyed", "initialized", "dataSource", "baseURI", "name", "data">>
    \o ViewParamOrder

\* the value: a parameter is declared with
ViewDefault(p) ==
    CASE p = "descending" -> Some(JBool(FALSE))
      [] p = "group" -> Some(JBool(FALSE))
      [] p = "include_docs" -> Some(JBool(FALSE))
      [] p = "inclusive_end" -> Some(JBool(TRUE))
      [] p = "skip" -> Some(JNum("0"))
      [] OTHER -> None

\* the validator: a parameter is declared with (limit declares "validotor",
\* which Y.Attribute does not know, so limit has none)
ViewValidator(p, val) ==
    CASE p \in {"descending", "group", "include_docs", "inclusive_end", "reduce"}
            -> val.type = "boolean"
      [] p = "skip" -> val.type = "number"
      [] p = "stale" -> val.type = "string" /\ val.repr \in {"ok", "update_after"}
      [] OTHER -> TRUE

\* the keys of a configuration object, and the value it gives a key
CfgKeys(config) == {config[k].key : k \in 1..Len(config)}
CfgVal(config, p) == (CHOOSE k \in 1..Len(config) : config[k].key = p)

\* initial value of a parameter: the configured value replaces the declared
\* one and is then validated; a rejected initial value leaves no value
ViewInitParam(p, config) ==
    IF p \in CfgKeys(config)
    THEN LET val == config[CfgVal(config, p)].val
         IN  IF ViewValidator(p, val) THEN Some(val) ELSE None
    ELSE ViewDefault(p)

View_baseURISetter(v, val) ==
    [v EXCEPT !._uri = val \o <<"/", "_", "v", "i", "e", "w", "/">> \o v.name,
              !.baseURI = val]

View_nameSetter(v, val) ==
    [v EXCEPT !._uri = v.baseURI \o <<"/", "_", "v", "i", "e", "w", "/">> \o val,
              !.name = val]

\* userSet is a history field: the parameters the caller has given a value
ViewDefaults(config) ==
    [baseURI |-> <<>>, name |-> <<>>, _uri |-> <<>>, data |-> None,
     params |-> [p \in ViewParams |-> ViewInitParam(p, config)],
     userSet |-> CfgKeys(config) \cap ViewParams]

\* attribute values after new Y.Couch.View(config), config.baseURI = b and
\* config.name = name
NewView(b, name, config) ==
    View_nameSetter(View_baseURISetter(ViewDefaults(config), b), name)

\* this.getAttrs(): every attribute with its current value
ViewAttr(v, key) ==
    CASE key = "destroyed" -> Some(JBool(FALSE))
      [] key = "initialized" -> Some(JBool(TRUE))
      [] key = "dataSource" -> Some(JStr("[object Object]"))
      [] key = "baseURI" -> Some(JStr(v.baseURI))
      [] key = "name" -> Some(JStr(v.name))
      [] key = "data" -> v.data
      [] OTHER -> v.params[key]

ViewGetAttrs(v) ==
    [k \in 1..Len(AttrOrder) |-> [key |-> AttrOrder[k], val |-> ViewAttr(v, AttrOrder[k])]]

\* variant: the key list without 'name'
ExcludedKeys_m == {"baseURI", "dataSource", "destroyed", "initialized", "data"}

\* the keys fetchData never copies into the request
ExcludedKeys == {"baseURI", "name", "dataSource", "destroyed", "initialized", "data"}

\* fetchData's Y.Object.each: skip null/undefined values and the excluded keys
ViewKeeps(a) == a.val # None /\ a.key \notin ExcludedKeys

ViewRequestData(v) ==
    LET kept == SelectSeq(ViewGetAttrs(v), ViewKeeps)
    IN  [k \in 1..Len(kept) |-> [key |-> kept[k].key, val |-> Get(kept[k].val)]]

View_fetchData(v, i, n) ==
    Req(<<"view", i>>, "fetchData", "GET", v._uri, ViewRequestData(v), None,
        getDataSource(TRUE, n),
        Callbacks(EVENT_DATA,
                  "An error occurred fetching the information for the databases: "))

View_defDataFn(v, response) == [v EXCEPT !.data = Attr_set(v.data, response)]

\* View's initializer only publishes couch:data
View_initializer(v, i, n) == <<>>

\* configuration objects given to getView
CfgNone == <<>>
CfgSample ==
    <<[key |-> "descending", val |-> JBool(TRUE)],
      [key |-> "limit", val |-> JNum("5")],
      [key |-> "stale", val |-> JStr("ok")]>>
ViewConfigs == {CfgNone, CfgSample}

----------------------------------------------------------------------------
(* Inputs of replicate *)

\* (source, target) pairs: both strings, one string, no string
ReplArgs ==
    {<<JStr(<<"a">>), JStr(<<"b">>)>>, <<JNum(<<"5">>), JStr(<<"b">>)>>,
     <<JNum(<<"5">>), JNum(<<"6">>)>>}
ReplConfigs == {None}

----------------------------------------------------------------------------
(* The state after new Y.Couch.Connect({baseURI: b}): the initializer has  *)
(* published the events and called fetchInfo(true)                         *)

Connect_initializer(c, n) ==
    <<[Connect_fetchInfo(c, TRUE, n) EXCEPT !.by = "initializer"]>>

Init ==
    /\ \E b \in BaseURIs : conn = NewConnect(b)
    /\ dbs = <<>>
    /\ docs = <<>>
    /\ views = <<>>
    /\ requests = Connect_initializer(conn, 1)
    /\ issued = Len(requests)
    /\ calls = 0
    /\ delivered = 0
    /\ sets = 0
    /\ last = Call("Connect", ConnectEnt, RetEntity(1), <<>>, 0, Len(requests))

Room(ent) == calls < (IF ent[1] = "document" THEN MaxDocCalls ELSE MaxCalls)
NextId == issued + 1

\* a method call hands request r to sendRequest
Send(r) ==
    /\ Room(r.ent)
    /\ requests' = Append(requests, r)
    /\ issued' = issued + 1
    /\ calls' = calls + 1
    /\ UNCHANGED <<delivered, sets>>

\* a factory method: the child's initializer hands its requests to sendRequest
Construct(rs) ==
    /\ requests' = requests \o rs
    /\ issued' = issued + Len(rs)
    /\ calls' = calls
    /\ UNCHANGED <<delivered, sets>>

NoSend == UNCHANGED <<requests, issued, calls, delivered, sets>>

----------------------------------------------------------------------------
(* Connect's methods *)

ConnectFetchInfo(getNew) ==
    /\ Send(Connect_fetchInfo(conn, getNew, NextId))
    /\ last' = Call("fetchInfo", ConnectEnt,
                    RetDS(getDataSource(getNew, NextId)), <<>>, 0, 1)
    /\ UNCHANGED <<conn, dbs, docs, views>>

ConnectFetchAllDatabases(getNew) ==
    /\ Send(Connect_fetchAllDatabases(conn, getNew, NextId))
    /\ last' = Call("fetchAllDatabases", ConnectEnt,
                    RetDS(getDataSource(getNew, NextId)), <<>>, 0, 1)
    /\ UNCHANGED <<conn, dbs, docs, views>>

\* new Y.Couch.DB({baseURI, name}); the DB's initializer runs inside
GetDatabase(name) ==
    /\ Len(dbs) < MaxDBs
    /\ LET d == NewDB(conn.baseURI, name)
           i == Len(dbs) + 1
           rs == DB_initializer(d, i, NextId)
       IN  /\ dbs' = Append(dbs, d)
           /\ Construct(rs)
           /\ last' = Call("getDatabase", ConnectEnt, RetEntity(i), <<>>, 0,
                           Len(rs))
    /\ UNCHANGED <<conn, docs, views>>

\* the log call is the only effect of the argument check: no return follows
Replicate(source, target, requestConfig) ==
    /\ Send(Connect_replicate(conn, source, target, requestConfig, NextId))
    /\ last' = Call("replicate", ConnectEnt, RetUndefined, <<>>,
                    ReplicateLogs(source, target), 1)
    /\ UNCHANGED <<conn, dbs, docs, views>>

----------------------------------------------------------------------------
(* DB's methods *)

DBFetchInfo(i) ==
    /\ i \in 1..Len(dbs)
    /\ Send(DB_fetchInfo(dbs[i], i, NextId))
    /\ last' = Call("fetchInfo", <<"db", i>>, RetDS(NextId), <<>>, 0, 1)
    /\ UNCHANGED <<conn, dbs, docs, views>>

DBFetchAllDocuments(i, options) ==
    /\ i \in 1..Len(dbs)
    /\ Send(DB_fetchAllDocuments(dbs[i], i, options, NextId))
    /\ last' = Call("fetchAllDocuments", <<"db", i>>, RetDS(NextId), <<>>, 0, 1)
    /\ UNCHANGED <<conn, dbs, docs, views>>

\* new Y.Couch.Document({baseURI, databaseName, id}); its initializer runs inside
GetDocument(i, id) ==
    /\ i \in 1..Len(dbs)
    /\ Len(docs) < MaxDocs
    /\ LET d == NewDocument(dbs[i].baseURI, dbs[i].name, id)
           j == Len(docs) + 1
           rs == Document_initializer(d, j, NextId)
       IN  /\ docs' = Append(docs, d)
           /\ Construct(rs)
           /\ last' = Call("getDocument", <<"db", i>>, RetEntity(j), <<>>, 0,
                           Len(rs))
    /\ UNCHANGED <<conn, dbs, views>>

----------------------------------------------------------------------------
(* Document's methods *)

DocumentFetchInfo(j) ==
    /\ j \in 1..Len(docs)
    /\ Send(Document_fetchInfo(docs[j], j, NextId))
    /\ last' = Call("fetchInfo", <<"document", j>>, RetDS(NextId), <<>>, 0, 1)
    /\ UNCHANGED <<conn, dbs, docs, views>>

DocumentOpen(j, options) ==
    /\ j \in 1..Len(docs)
    /\ Send(Document_open(docs[j], j, options, NextId))
    /\ last' = Call("open", <<"document", j>>, RetDS(NextId), <<>>, 0, 1)
    /\ UNCHANGED <<conn, dbs, docs, views>>

\* save: without data._id it fires couch:error (whose default handler logs)
\* and returns null; with options it calls this._queryString, which no class
\* defines, so the call throws before anything is sent
DocumentSave(j, options) ==
    /\ j \in 1..Len(docs)
    /\ LET d == docs[j]
       IN  IF ~SaveHasId(d.data)
           THEN /\ last' = Call("save", <<"document", j>>, RetNull,
                                SaveFailFired(d), ErrorLogs(SaveFailFired(d)), 0)
                /\ NoSend
           ELSE IF options # None
           THEN /\ last' = Call("save", <<"document", j>>, RetThrow, <<>>, 0, 0)
                /\ NoSend
           ELSE /\ Send(Document_save(d, j, NextId))
                /\ last' = Call("save", <<"document", j>>, RetDS(NextId), <<>>, 0, 1)
    /\ UNCHANGED <<conn, dbs, docs, views>>

\* variant: a remove that fires the published couch:deleted event
DocumentRemove_m(j, options) ==
    /\ j \in 1..Len(docs)
    /\ last' = Call("remove", <<"document", j>>, RetUndefined,
                    <<Evt(EVENT_DELETED, None, "")>>, 0, 0)
    /\ NoSend /\ UNCHANGED <<conn, dbs, docs, views>>

DocumentRemove(j, options) ==
    /\ j \in 1..Len(docs)
    /\ last' = Call("remove", <<"document", j>>, RetUndefined, <<>>, 0, 0)
    /\ NoSend /\ UNCHANGED <<conn, dbs, docs, views>>

\* 'EVENT_ERROR' is fired as a literal event name: no such event is
\* published, so no default handler runs and nothing is logged
DocumentGetAllViews(j) ==
    /\ j \in 1..Len(docs)
    /\ last' = Call("getAllViews", <<"document", j>>,
                    RetArray(GetAllViewsResult(docs[j])),
                    GetAllViewsFired(docs[j]), 0, 0)
    /\ NoSend /\ UNCHANGED <<conn, dbs, docs, views>>

\* new Y.Couch.View(config) with config.name and config.baseURI filled in
DocumentGetView(j, name, config) ==
    /\ j \in 1..Len(docs)
    /\ Len(views) < MaxViews
    /\ LET v == NewView(docs[j]._uri, name, config)
           i == Len(views) + 1
           rs == View_initializer(v, i, NextId)
       IN  /\ views' = Append(views, v)
           /\ Construct(rs)
           /\ last' = Call("getView", <<"document", j>>, RetEntity(i), <<>>, 0,
                           Len(rs))
    /\ UNCHANGED <<conn, dbs, docs>>

----------------------------------------------------------------------------
(* View's methods *)

ViewFetchData(i) ==
    /\ i \in 1..Len(views)
    /\ Send(View_fetchData(views[i], i, NextId))
    /\ last' = Call("fetchData", <<"view", i>>, RetDS(NextId), <<>>, 0, 1)
    /\ UNCHANGED <<conn, dbs, docs, views>>

----------------------------------------------------------------------------
(* The transport delivers the outcome of a request to its callbacks *)

\* the default handler of a success event, on the entity that fired it
ApplyConn(type, response) ==
    CASE type = EVENT_INFO -> Connect_defInfoFn(conn, response)
      [] type = EVENT_FETCH_ALL -> Connect_defFecthAllFn(conn, response)
      [] OTHER -> conn

ApplyDB(d, type, response) ==
    CASE type = EVENT_INFO -> DB_defInfoFn(d, response)
      [] type = EVENT_FETCH_ALL -> DB_defFecthAllFn(d, response)
      [] OTHER -> d

ApplyDocument(d, type, response) ==
    CASE type = EVENT_INFO -> Document_defInfoFn(d, response)
      [] type = EVENT_OPENED -> Document_defOpenedFn(d, response)
      [] type = EVENT_SAVED -> Document_defSavedFn(d, response)
      [] OTHER -> d

ApplyView(v, type, response) ==
    CASE type = EVENT_DATA -> View_defDataFn(v, response)
      [] OTHER -> v

\* success callback: this.fire(<event>, {response: parsed body})
SuccessFired(r, response) ==
    IF r.callbacks.success = None THEN <<>>
    ELSE <<Evt(Get(r.callbacks.success), Some(response), "")>>

\* variant: a failure callback that fires nothing
FailureFired_m(r) == <<>>

\* failure callback: this.fire(EVENT_ERROR, {message: ...})
FailureFired(r) ==
    IF r.callbacks.failure = None THEN <<>>
    ELSE <<Evt(EVENT_ERROR, None, Get(r.callbacks.failure))>>

\* the in-flight requests without the k-th
Without(k) == SubSeq(requests, 1, k - 1) \o SubSeq(requests, k + 1, Len(requests))

DeliverSuccess(k, response) ==
    /\ k \in 1..Len(requests)
    /\ delivered < MaxDeliveries
    /\ delivered' = delivered + 1
    /\ LET r == requests[k]
           fired == SuccessFired(r, response)
           kind == r.ent[1]
           i == r.ent[2]
       IN  /\ requests' = Without(k)
           /\ last' = Callback("success", r, Some(response), fired, ErrorLogs(fired))
           /\ conn' = IF kind = "connect" /\ fired # <<>>
                      THEN ApplyConn(fired[1].type, response) ELSE conn
           /\ dbs' = IF kind = "db" /\ fired # <<>>
                     THEN [dbs EXCEPT ![i] = ApplyDB(dbs[i], fired[1].type, response)]
                     ELSE dbs
           /\ docs' = IF kind = "document" /\ fired # <<>>
                      THEN [docs EXCEPT ![i] =
                               ApplyDocument(docs[i], fired[1].type, response)]
                      ELSE docs
           /\ views' = IF kind = "view" /\ fired # <<>>
                       THEN [views EXCEPT ![i] =
                                ApplyView(views[i], fired[1].type, response)]
                       ELSE views
    /\ UNCHANGED <<issued, calls, sets>>

DeliverFailure(k) ==
    /\ k \in 1..Len(requests)
    /\ delivered < MaxDeliveries
    /\ delivered' = delivered + 1
    /\ LET r == requests[k]
           fired == FailureFired(r)
       IN  /\ requests' = Without(k)
           /\ last' = Callback("failure", r, None, fired, ErrorLogs(fired))
    /\ UNCHANGED <<conn, dbs, docs, views, issued, calls, sets>>

----------------------------------------------------------------------------

Next ==
    \/ \E getNew \in BOOLEAN : ConnectFetchInfo(getNew)
    \/ \E getNew \in BOOLEAN : ConnectFetchAllDatabases(getNew)
    \/ \E name \in DbNames : GetDatabase(name)
    \/ \E st \in ReplArgs, cfg \in ReplConfigs : Replicate(st[1], st[2], cfg)
    \/ \E i \in 1..Len(dbs) : DBFetchInfo(i)
    \/ \E i \in 1..Len(dbs), o \in Options : DBFetchAllDocuments(i, o)
    \/ \E i \in 1..Len(dbs), id \in DocIds : GetDocument(i, id)
    \/ \E j \in 1..Len(docs) : DocumentFetchInfo(j)
    \/ \E j \in 1..Len(docs), o \in Options : DocumentOpen(j, o)
    \/ \E j \in 1..Len(docs), o \in Options : DocumentSave(j, o)
    \/ \E j \in 1..Len(docs), o \in Options : DocumentRemove(j, o)
    \/ \E j \in 1..Len(docs) : DocumentGetAllViews(j)
    \/ \E j \in 1..Len(docs), name \in ViewNames, cfg \in ViewConfigs :
          DocumentGetView(j, name, cfg)
    \/ \E i \in 1..Len(views) : ViewFetchData(i)
    \/ \E k \in 1..Len(requests), b \in Bodies : DeliverSuccess(k, b)
    \/ \E k \in 1..Len(requests) : DeliverFailure(k)

Spec == Init /\ [][Next]_vars

----------------------------------------------------------------------------
(* The caller changes attributes with set() after construction *)

HY == <<"h", "t", "t", "p", ":", "/", "/", "y">>

\* values given to set(): a base URI (for Connect also with one and with two
\* trailing slashes), a database or view name, a document id
SetBaseURIs == {HY}
ConnectSetURIs == {HY, HY \o SLASH, HY \o SLASH \o SLASH}
SetNames == {<<"e">>}
SetIds == {<<"c", "?">>}

\* (parameter, value) pairs given to set() on a View
ViewSetInputs ==
    {<<"stale", JStr("bogus")>>, <<"stale", JStr("update_after")>>,
     <<"limit", JStr("x")>>, <<"descending", JNum("1")>>,
     <<"skip", JNum("3")>>}

\* set('data', val) by a caller: data is declared readOnly without a value
Document_setData(d, val) == [d EXCEPT !.data = AttrSet(TRUE, d.data, val)]

\* set(p, val) on a View parameter: the validator decides; a rejected value
\* is dropped and the parameter keeps what it had
View_setParam(v, p, val) ==
    IF ViewValidator(p, val)
    THEN [v EXCEPT !.params[p] = Some(val), !.userSet = @ \cup {p}]
    ELSE v

\* what a set() step leaves in `last`: set returns the instance, the classes
\* of this library fire nothing and send nothing from a setter
SetCall(ent) == Call("set", ent, RetEntity(ent[2]), <<>>, 0, 0)

SetStep(ent) ==
    /\ sets < MaxSets
    /\ sets' = sets + 1
    /\ last' = SetCall(ent)
    /\ UNCHANGED <<requests, issued, calls, delivered>>

ConnectSet(val) ==
    /\ SetStep(ConnectEnt)
    /\ conn' = [conn EXCEPT !.baseURI = Connect_baseURISetter(val)]
    /\ UNCHANGED <<dbs, docs, views>>

\* variant: the DB's requests in flight follow the DB's path
DBSet_m(i, attr, val) ==
    /\ i \in 1..Len(dbs)
    /\ sets < MaxSets
    /\ sets' = sets + 1
    /\ last' = SetCall(<<"db", i>>)
    /\ dbs' = [dbs EXCEPT ![i] =
                  CASE attr = "baseURI" -> DB_baseURISetter(dbs[i], val)
                    [] attr = "name" -> DB_nameSetter(dbs[i], val)]
    /\ requests' = [k \in 1..Len(requests) |->
                       IF requests[k].ent = <<"db", i>>
                       THEN [requests[k] EXCEPT !.url = dbs'[i]._uri]
                       ELSE requests[k]]
    /\ UNCHANGED <<conn, docs, views, issued, calls, delivered>>

DBSet(i, attr, val) ==
    /\ i \in 1..Len(dbs)
    /\ SetStep(<<"db", i>>)
    /\ dbs' = [dbs EXCEPT ![i] =
                  CASE attr = "baseURI" -> DB_baseURISetter(dbs[i], val)
                    [] attr = "name" -> DB_nameSetter(dbs[i], val)]
    /\ UNCHANGED <<conn, docs, views>>

DocumentSet(j, attr, val) ==
    /\ j \in 1..Len(docs)
    /\ SetStep(<<"document", j>>)
    /\ docs' = [docs EXCEPT ![j] =
                  CASE attr = "baseURI" -> Document_baseURISetter(docs[j], val)
                    [] attr = "databaseName" ->
                          Document_databaseNameSetter(docs[j], val)
                    [] attr = "id" -> Document_idSetter(docs[j], val)]
    /\ UNCHANGED <<conn, dbs, views>>

DocumentSetData(j, val) ==
    /\ j \in 1..Len(docs)
    /\ SetStep(<<"document", j>>)
    /\ docs' = [docs EXCEPT ![j] = Document_setData(docs[j], val)]
    /\ UNCHANGED <<conn, dbs, views>>

ViewSet(i, attr, val) ==
    /\ i \in 1..Len(views)
    /\ SetStep(<<"view", i>>)
    /\ views' = [views EXCEPT ![i] =
                    CASE attr = "baseURI" -> View_baseURISetter(views[i], val)
                      [] attr = "name" -> View_nameSetter(views[i], val)]
    /\ UNCHANGED <<conn, dbs, docs>>

ViewSetParam(i, p, val) ==
    /\ i \in 1..Len(views)
    /\ SetStep(<<"view", i>>)
    /\ views' = [views EXCEPT ![i] = View_setParam(views[i], p, val)]
    /\ UNCHANGED <<conn, dbs, docs>>

\* the state after
\*   c = new Y.Couch.Connect({baseURI: "http://x"}); d = c.getDatabase("d");
\*   o = d.getDocument("1"); v = o.getView("v1", {descending, limit, stale})
\* with the three requests of the initializers still in flight
InitSet ==
    /\ conn = NewConnect(HX)
    /\ dbs = <<NewDB(HX, <<"d">>)>>
    /\ docs = <<NewDocument(HX, <<"d">>, <<"1">>)>>
    /\ views = <<NewView(HX \o <<"/", "d", "/", "1">>, <<"v", "1">>, CfgSample)>>
    /\ requests = Connect_initializer(conn, 1) \o DB_initializer(dbs[1], 1, 2)
                  \o Document_initializer(docs[1], 1, 3)
                  \o View_initializer(views[1], 1, 4)
    /\ issued = 3
    /\ calls = 0
    /\ delivered = 0
    /\ sets = 0
    /\ last = Call("getView", <<"document", 1>>, RetEntity(1), <<>>, 0, 0)

\* the program from there on, with a caller that also uses set()
NextSet ==
    \/ ConnectFetchInfo(TRUE)
    \/ ConnectFetchAllDatabases(TRUE)
    \/ \E i \in 1..Len(dbs) : DBFetchInfo(i)
    \/ \E j \in 1..Len(docs) : DocumentFetchInfo(j)
    \/ \E j \in 1..Len(docs) : DocumentOpen(j, None)
    \/ \E j \in 1..Len(docs) : DocumentSave(j, None)
    \/ \E i \in 1..Len(views) : ViewFetchData(i)
    \/ \E val \in ConnectSetURIs : ConnectSet(val)
    \/ \E i \in 1..Len(dbs), val \in SetBaseURIs : DBSet(i, "baseURI", val)
    \/ \E i \in 1..Len(dbs), val \in SetNames : DBSet(i, "name", val)
    \/ \E j \in 1..Len(docs), val \in SetBaseURIs : DocumentSet(j, "baseURI", val)
    \/ \E j \in 1..Len(docs), val \in SetNames : DocumentSet(j, "databaseName", val)
    \/ \E j \in 1..Len(docs), val \in SetIds : DocumentSet(j, "id", val)
    \/ \E j \in 1..Len(docs), val \in Bodies : DocumentSetData(j, val)
    \/ \E i \in 1..Len(views), val \in SetBaseURIs : ViewSet(i, "baseURI", val)
    \/ \E i \in 1..Len(views), val \in SetNames : ViewSet(i, "name", val)
    \/ \E i \in 1..Len(views), pv \in ViewSetInputs : ViewSetParam(i, pv[1], pv[2])
    \/ \E k \in 1..Len(requests), b \in Bodies : DeliverSuccess(k, b)

SpecSet == InitSet /\ [][NextSet]_vars

----------------------------------------------------------------------------
(* Claims *)

\* the number of requests in flight that are a GET of url
GetsTo(url) ==
    Cardinality({k \in 1..Len(requests) :
                    requests[k].method = "GET" /\ requests[k].url = url})

ChainUrl == HX \o <<"/", "d", "/", "1">>

\* the state right after the synchronous chain
\* Connect({baseURI}).getDatabase("d").getDocument("1").open():
\* its requests are all that was ever issued, and none has been answered
ChainRan ==
    /\ issued = Len(requests)
    /\ calls = 1
    /\ Len(dbs) = 1 /\ Len(docs) = 1 /\ Len(views) = 0
    /\ docs[1]._uri = ChainUrl
    /\ last.op = "open"

\* the callback of a successful open has just run
OpenSucceeded == last.op = "success" /\ Get(last.req).op = "open"

\* C1, as claimed: the chain Connect().getDatabase("d").getDocument("1").open()
\* issues exactly one GET to http://x/d/1 in total, and a successful answer B
\* to the open is fired as `opened` with B and stored as the document's data
C1_AsClaimed ==
    /\ ChainRan => GetsTo(ChainUrl) = 1
    /\ OpenSucceeded =>
          /\ last.fired = <<Evt(EVENT_OPENED, last.resp, "")>>
          /\ docs[last.ent[2]].data = last.resp

\* C1, amended: the chain issues four requests, two of them a GET to
\* http://x/d/1 (the fetchInfo of the Document's initializer, then the open);
\* a successful answer B to the open is fired as `opened` with B and stored
\* as the document's data
C1_ChainOpens ==
    /\ ChainRan =>
          /\ Len(requests) = 4
          /\ GetsTo(ChainUrl) = 2
          /\ requests[3].op = "fetchInfo" /\ requests[3].by = "initializer"
          /\ requests[3].url = ChainUrl /\ requests[3].ent = <<"document", 1>>
          /\ requests[4].op = "open" /\ requests[4].by = "call"
          /\ requests[4].url = ChainUrl /\ requests[4].ent = <<"document", 1>>
    /\ OpenSucceeded =>
          /\ last.fired = <<Evt(EVENT_OPENED, last.resp, "")>>
          /\ docs[last.ent[2]].data = last.resp

\* the chain ran, and its open was answered with {"_id": "1", ...}
C1_Witness ==
    /\ OpenSucceeded
    /\ issued = 4 /\ calls = 1
    /\ Len(docs) = 1 /\ docs[1]._uri = ChainUrl
    /\ last.resp = Some(BodyDoc)
    /\ docs[1].data = Some(BodyDoc)

\* C2, as claimed: getDatabase(name) and getDocument(id) issue no request
C2_AsClaimed ==
    [][(\/ \E name \in DbNames : GetDatabase(name)
        \/ \E i \in 1..Len(dbs), id \in DocIds : GetDocument(i, id))
       => requests' = requests /\ issued' = issued]_vars

\* what getDatabase(name) is to leave behind: a new DB with baseURI and name
\* set, and one request, the GET of {baseURI}/{name}/ of its initializer
AfterGetDatabase(name) ==
    LET i == Len(dbs) + 1
    IN  /\ Len(dbs') = i
        /\ dbs'[i].baseURI = conn.baseURI /\ dbs'[i].name = name
        /\ last'.ret = RetEntity(i)
        /\ issued' = issued + 1
        /\ Len(requests') = Len(requests) + 1
        /\ SubSeq(requests', 1, Len(requests)) = requests
        /\ LET r == requests'[Len(requests')]
           IN  /\ r.method = "GET" /\ r.op = "fetchInfo" /\ r.by = "initializer"
               /\ r.ent = <<"db", i>>
               /\ r.url = conn.baseURI \o SLASH \o name \o SLASH

\* the same of getDocument(id) on the i-th DB: the GET of {baseURI}/{db}/{id}
AfterGetDocument(i, id) ==
    LET j == Len(docs) + 1
    IN  /\ Len(docs') = j
        /\ docs'[j].baseURI = dbs[i].baseURI
        /\ docs'[j].databaseName = dbs[i].name
        /\ docs'[j].id = encodeURIComponent(id)
        /\ last'.ret = RetEntity(j)
        /\ issued' = issued + 1
        /\ Len(requests') = Len(requests) + 1
        /\ SubSeq(requests', 1, Len(requests)) = requests
        /\ LET r == requests'[Len(requests')]
           IN  /\ r.method = "GET" /\ r.op = "fetchInfo" /\ r.by = "initializer"
               /\ r.ent = <<"document", j>>
               /\ r.url = dbs[i].baseURI \o SLASH \o dbs[i].name \o SLASH
                          \o encodeURIComponent(id)

\* C2, amended: getDatabase(name) and getDocument(id) return a new child with
\* baseURI and name/id set and issue exactly one request, the fetchInfo GET
\* the child's initializer sends to the child's resource path
C2_FactoriesFetchInfo ==
    [][/\ \A name \in DbNames : GetDatabase(name) => AfterGetDatabase(name)
       /\ \A i \in 1..Len(dbs), id \in DocIds :
             GetDocument(i, id) => AfterGetDocument(i, id)]_vars

\* getDocument has just returned a Document, its initializer's request is out
C2_Witness ==
    /\ last.op = "getDocument" /\ last.nreq = 1
    /\ Len(docs) = 1 /\ Len(dbs) = 1
    /\ \E k \in 1..Len(requests) :
          requests[k].ent = <<"document", 1>> /\ requests[k].by = "initializer"

\* the document has no data, or data without _id
NoId(d) == d.data = None \/ Get(d.data)._id = None

\* C3: save() on a document whose data is absent or has no _id fires the
\* published error event exactly once, returns null, issues no request and
\* leaves the document (data, info, resource path) as it was
C3_SaveWithoutId ==
    [][\A j \in 1..Len(docs), o \in Options :
          (DocumentSave(j, o) /\ NoId(docs[j])) =>
             /\ Len(last'.fired) = 1
             /\ last'.fired[1].type = EVENT_ERROR
             /\ last'.ret = RetNull
             /\ last'.nreq = 0
             /\ requests' = requests /\ issued' = issued
             /\ docs' = docs]_vars

\* save() has just failed on a document opened with a body that has no _id
C3_Witness ==
    /\ last.op = "save" /\ last.ret = RetNull
    /\ Len(last.fired) = 1
    /\ docs[last.ent[2]].data = Some(BodyViews)

\* C4, as claimed: save() on a document whose data has an _id issues exactly
\* one PUT to {resource path}/{encodeURIComponent(_id)}, followed by "?" and
\* the query string of the options when options are given, with the data as
\* body and callbacks that fire `saved` or `error`
C4_AsClaimed ==
    [][\A j \in 1..Len(docs), o \in Options :
          (DocumentSave(j, o) /\ SaveHasId(docs[j].data)) =>
             /\ Len(requests') = Len(requests) + 1
             /\ issued' = issued + 1
             /\ LET r == requests'[Len(requests')]
                IN  /\ r.method = "PUT"
                    /\ r.doc = docs[j].data
                    /\ r.callbacks.success = Some(EVENT_SAVED)
                    /\ r.callbacks.failure # None
                    /\ r.url = docs[j]._uri \o SLASH
                               \o encodeURIComponent(Get(Get(docs[j].data)._id))
                               \o (IF o = None THEN <<>>
                                   ELSE <<"?">> \o QueryString(Get(o)))]_vars

\* the field an operation's success handler stores the response in
StoredField(ent, op) ==
    CASE ent[1] = "connect" /\ op = "fetchInfo" -> conn.info
      [] ent[1] = "connect" /\ op = "fetchAllDatabases" -> conn.databases
      [] ent[1] = "db" /\ op = "fetchInfo" -> dbs[ent[2]].info
      [] ent[1] = "db" /\ op = "fetchAllDocuments" -> dbs[ent[2]].documents
      [] ent[1] = "document" /\ op = "fetchInfo" -> docs[ent[2]].info
      [] ent[1] = "document" /\ op = "open" -> docs[ent[2]].data
      [] ent[1] = "view" /\ op = "fetchData" -> views[ent[2]].data

FetchOps == {"fetchInfo", "fetchAllDatabases", "fetchAllDocuments", "open",
             "fetchData"}

\* C5, as claimed: once the success callback of a fetch has run with parsed
\* body B, the entity's stored field for that fetch equals B, whatever was
\* stored before (Document.info after Document.fetchInfo included)
C5_AsClaimed ==
    (last.op = "success" /\ Get(last.req).op \in FetchOps)
       => StoredField(last.ent, Get(last.req).op) = last.resp

\* C6, as claimed: getAllViews() on a document whose info is unset or has no
\* views returns an empty array and fires the published error event
\* (couch:error, whose default handler logs) exactly once
C6_AsClaimed ==
    (last.op = "getAllViews" /\ GetAllViewsFails(docs[last.ent[2]])) =>
        /\ last.ret = RetArray(<<>>)
        /\ Len(last.fired) = 1
        /\ last.fired[1].type = EVENT_ERROR
        /\ last.logs = 1

\* the latest successful fetchInfo response of the document had views
InfoHadViews(d) == d.infoResp # None /\ Get(d.infoResp).views # None

\* C7, as claimed: after a fetchInfo of the document has succeeded with a
\* response whose views are K, getAllViews() returns K and fires no error
C7_AsClaimed ==
    (last.op = "getAllViews" /\ InfoHadViews(docs[last.ent[2]])) =>
        /\ last.ret = RetArray(Get(Get(docs[last.ent[2]].infoResp).views))
        /\ last.fired = <<>>

\* C8, as claimed: whenever a request fails, whatever operation issued it,
\* the error event is fired exactly once for it and nothing else happens
C8_AsClaimed ==
    last.op = "failure" =>
        /\ Len(last.fired) = 1
        /\ last.fired[1].type = EVENT_ERROR
        /\ last.nreq = 0

\* C8, amended: a failed request of fetchInfo, fetchAllDatabases,
\* fetchAllDocuments, open, save or fetchData fires the error event exactly
\* once and no success event; a failed replicate request, which is sent
\* without callbacks, fires nothing; in both cases no request is issued
\* (no retry) and no stored field changes
C8_FailureFiresOnce ==
    [][\A k \in 1..Len(requests) :
          DeliverFailure(k) =>
             /\ IF requests[k].op = "replicate"
                THEN last'.fired = <<>> /\ last'.logs = 0
                ELSE /\ Len(last'.fired) = 1
                     /\ last'.fired[1].type = EVENT_ERROR
                     /\ last'.logs = 1
             /\ issued' = issued /\ calls' = calls
             /\ Len(requests') = Len(requests) - 1
             /\ \A m \in 1..Len(requests') :
                   \E n \in 1..Len(requests) : requests'[m] = requests[n]
             /\ UNCHANGED <<conn, dbs, docs, views>>]_vars

\* an open has just failed: one couch:error was fired for it
C8_Witness ==
    /\ last.op = "failure"
    /\ Get(last.req).op = "open"
    /\ Len(last.fired) = 1 /\ last.fired[1].type = EVENT_ERROR

\* C9, as claimed: replicate with a source or a target that is not a string
\* logs an error, does not throw, and issues no POST
C9_AsClaimed ==
    [][\A st \in ReplArgs, cfg \in ReplConfigs :
          (/\ Replicate(st[1], st[2], cfg)
           /\ (st[1].type # "string" \/ st[2].type # "string")) =>
             /\ last'.logs >= 1
             /\ last'.ret # RetThrow
             /\ requests' = requests /\ issued' = issued]_vars

\* the keys of the query parameters of a request, and the value of one
SentKeys(r) == {r.data[k].key : k \in 1..Len(r.data)}
SentVal(r, p) == r.data[CHOOSE k \in 1..Len(r.data) : r.data[k].key = p].val

\* C10, as claimed: fetchData sends exactly the view parameters the caller
\* configured (for {descending, limit, stale}: those three), and none of
\* baseURI, name, dataSource, destroyed, initialized, data
C10_AsClaimed ==
    [][\A i \in 1..Len(views) :
          ViewFetchData(i) =>
             SentKeys(requests'[Len(requests')]) = views[i].userSet]_vars

\* the parameters ATTRS declares with a value
DefaultedParams == {"descending", "group", "include_docs", "inclusive_end", "skip"}

\* C10, amended: fetchData sends exactly the view parameters whose value is
\* not null: those the caller configured and the five declared with a value
\* (descending, group, include_docs, inclusive_end, skip), which are sent
\* whether or not the caller set them; each with its current value, in the
\* order of declaration; baseURI, name, dataSource, destroyed, initialized
\* and data are never sent
C10_SendsNonNullParams ==
    [][\A i \in 1..Len(views) :
          ViewFetchData(i) =>
             LET r == requests'[Len(requests')]
                 v == views[i]
             IN  /\ r.op = "fetchData" /\ r.method = "GET" /\ r.url = v._uri
                 /\ SentKeys(r) = v.userSet \cup DefaultedParams
                 /\ SentKeys(r) \cap {"baseURI", "name", "dataSource",
                                      "destroyed", "initialized", "data"} = {}
                 /\ Len(r.data) = Cardinality(SentKeys(r))
                 /\ \A p \in SentKeys(r) : Some(SentVal(r, p)) = v.params[p]
                 /\ \A p \in DefaultedParams \ v.userSet :
                       Some(SentVal(r, p)) = ViewDefault(p)
                 /\ v.userSet = {"descending", "limit", "stale"} =>
                       [k \in 1..Len(r.data) |-> r.data[k].key] =
                          <<"descending", "group", "include_docs",
                            "inclusive_end", "limit", "skip", "stale">>]_vars

\* fetchData of a view configured with {descending, limit, stale} has just
\* sent its request: seven parameters
C10_Witness ==
    /\ last.op = "fetchData" /\ last.nreq = 1
    /\ views[last.ent[2]].userSet = {"descending", "limit", "stale"}
    /\ \E k \in 1..Len(requests) :
          /\ requests[k].op = "fetchData"
          /\ Len(requests[k].data) = 7

\* the kind of value the documentation of a view parameter permits
PermittedKind(p, val) ==
    CASE p \in {"descending", "group", "include_docs", "inclusive_end", "reduce"}
            -> val.type = "boolean"
      [] p \in {"limit", "skip"} -> val.type = "number"
      [] p = "stale" -> val.type = "string" /\ val.repr \in {"ok", "update_after"}
      [] OTHER -> TRUE

\* C11, as claimed: a view parameter never holds a value of the wrong kind
\* (boolean for descending, group, include_docs, inclusive_end, reduce;
\* number for limit and skip; "ok" or "update_after" for stale): a set() with
\* such a value is rejected and the parameter keeps its previous value
C11_AsClaimed ==
    \A i \in 1..Len(views) : \A p \in ViewParams :
        views[i].params[p] # None => PermittedKind(p, Get(views[i].params[p]))

\* the resource path computed from the current values of the fields
DBPath(d) == d.baseURI \o SLASH \o d.name \o SLASH
DocumentPath(d) == d.baseURI \o SLASH \o d.databaseName \o SLASH \o d.id
ViewPath(v) == v.baseURI \o <<"/", "_", "v", "i", "e", "w", "/">> \o v.name

\* every cached resource path is the one computed from the current fields
PathsComputed ==
    /\ \A i \in 1..Len(dbs) : dbs[i]._uri = DBPath(dbs[i])
    /\ \A j \in 1..Len(docs) : docs[j]._uri = DocumentPath(docs[j])
    /\ \A i \in 1..Len(views) : views[i]._uri = ViewPath(views[i])

\* C12: whatever sequence of set() calls on baseURI, name, databaseName and
\* id has been made, in any order, the cached resource path of every DB,
\* Document and View is the one computed from the current field values (the
\* id stored URI-encoded), and a request issued by fetchInfo, open, save or
\* fetchData is addressed with the path computed from the values current at
\* that moment
C12_PathRecomputed ==
    [][/\ PathsComputed /\ PathsComputed'
       /\ \A j \in 1..Len(docs), val \in SetIds :
             DocumentSet(j, "id", val) => docs'[j].id = encodeURIComponent(val)
       /\ \A i \in 1..Len(dbs) :
             DBFetchInfo(i) => requests'[Len(requests')].url = DBPath(dbs[i])
       /\ \A j \in 1..Len(docs) :
             DocumentOpen(j, None) =>
                requests'[Len(requests')].url = DocumentPath(docs[j])
       /\ \A j \in 1..Len(docs) :
             (DocumentSave(j, None) /\ issued' = issued + 1) =>
                SubSeq(requests'[Len(requests')].url, 1,
                       Len(DocumentPath(docs[j]))) = DocumentPath(docs[j])
       /\ \A i \in 1..Len(views) :
             ViewFetchData(i) =>
                requests'[Len(requests')].url = ViewPath(views[i])]_vars

\* the DB has been given a new name and a new baseURI, and the fetchInfo
\* called after that is in flight to http://y/e/
C12_Witness ==
    /\ sets = 2
    /\ last.op = "fetchInfo" /\ last.ent = <<"db", 1>>
    /\ dbs[1].baseURI = HY /\ dbs[1].name = <<"e">>
    /\ requests[Len(requests)].url = HY \o <<"/", "e", "/">>

\* the requests in flight that entity ent has issued
RequestsOf(ent) == {k \in 1..Len(requests) : requests[k].ent = ent}

\* the newest request is the fetchInfo GET of ent's initializer, addressed to
\* url, and it is the only request of ent
OnlyInitializerRequest(ent, url) ==
    /\ last.nreq = 1
    /\ RequestsOf(ent) = {Len(requests)}
    /\ LET r == requests[Len(requests)]
       IN  /\ r.op = "fetchInfo" /\ r.method = "GET" /\ r.by = "initializer"
           /\ r.url = url

\* C13: right after the construction of a Connect, a DB or a Document
\* exactly one request of that instance exists, the fetchInfo GET of its
\* initializer to its own resource path ({baseURI}/, {baseURI}/{name}/,
\* {baseURI}/{databaseName}/{encoded id}); right after the construction of a
\* View no request of it exists and none was issued
C13_ConstructionFetchesInfo ==
    /\ last.op = "Connect" =>
          /\ issued = 1
          /\ OnlyInitializerRequest(ConnectEnt, conn.baseURI \o SLASH)
    /\ last.op = "getDatabase" =>
          LET i == last.ret.idx
          IN  OnlyInitializerRequest(<<"db", i>>,
                                     dbs[i].baseURI \o SLASH \o dbs[i].name \o SLASH)
    /\ last.op = "getDocument" =>
          LET j == last.ret.idx
          IN  OnlyInitializerRequest(<<"document", j>>,
                                     docs[j].baseURI \o SLASH \o docs[j].databaseName
                                     \o SLASH \o docs[j].id)
    /\ last.op = "getView" =>
          /\ last.nreq = 0
          /\ RequestsOf(<<"view", last.ret.idx>>) = {}

\* getView has just returned a View while the fetchInfo of the Document's
\* initializer is still in flight
C13_Witness ==
    /\ last.op = "getView" /\ Len(views) = 1
    /\ \E k \in 1..Len(requests) :
          /\ requests[k].ent = <<"document", 1>>
          /\ requests[k].by = "initializer"

\* the k-th of the requests rs uses a transport made for it: not the one kept
\* in the dataSource attribute (0), and not that of another request of rs
FreshIn(rs, k) ==
    /\ rs[k].ds # 0
    /\ \A m \in 1..Len(rs) : m # k => rs[m].ds # rs[k].ds

\* C14, as claimed: every request in flight, those of Connect.fetchInfo and
\* Connect.fetchAllDatabases called without argument included, uses a
\* transport instance made for that call
C14_AsClaimed == \A k \in 1..Len(requests) : FreshIn(requests, k)

\* C14, amended: the requests of DB, Document and View, of replicate and of
\* the initializers each use a transport made for the call, shared with no
\* other request in flight; Connect.fetchInfo(getNew) and
\* Connect.fetchAllDatabases(getNew) do so only when getNew is true, and
\* otherwise use (and return) the one instance kept in the dataSource
\* attribute
C14_FreshUnlessShared ==
    [][/\ \A getNew \in BOOLEAN :
             (ConnectFetchInfo(getNew) \/ ConnectFetchAllDatabases(getNew)) =>
                /\ IF getNew THEN FreshIn(requests', Len(requests'))
                   ELSE requests'[Len(requests')].ds = 0
                /\ last'.ret = RetDS(requests'[Len(requests')].ds)
       /\ (/\ issued' > issued
           /\ ~ \E getNew \in BOOLEAN :
                  ConnectFetchInfo(getNew) \/ ConnectFetchAllDatabases(getNew)) =>
             FreshIn(requests', Len(requests'))
       /\ \A k \in 1..Len(requests') :
             requests'[k].ds = 0 =>
                /\ requests'[k].ent = ConnectEnt
                /\ requests'[k].op \in {"fetchInfo", "fetchAllDatabases"}
                /\ requests'[k].by = "call"]_vars

\* fetchAllDatabases() was called without argument while the fetchInfo of
\* Connect's initializer is in flight: the new request uses the kept
\* transport, the older one its own
C14_Witness ==
    /\ last.op = "fetchAllDatabases" /\ last.ret = RetDS(0)
    /\ Len(requests) >= 2
    /\ requests[1].ent = ConnectEnt /\ requests[1].by = "initializer"
    /\ requests[1].ds = 1
    /\ requests[Len(requests)].ds = 0

\* val without its last character when that is "/", otherwise val
StripOneSlash(val) ==
    IF val # <<>> /\ val[Len(val)] = "/" THEN SubSeq(val, 1, Len(val) - 1) ELSE val

\* C15: set('baseURI', val) on a Connect stores val without one trailing "/"
\* when val ends in "/" (so http://y// is stored as http://y/) and val itself
\* otherwise; fetchInfo then requests the stored value + "/" and
\* fetchAllDatabases the stored value + "/_all_dbs"
C15_StripsOneSlash ==
    [][/\ \A val \in ConnectSetURIs :
             ConnectSet(val) =>
                /\ conn'.baseURI = StripOneSlash(val)
                /\ val = HY \o <<"/", "/">> => conn'.baseURI = HY \o <<"/">>
                /\ val = HY \o <<"/">> => conn'.baseURI = HY
                /\ val = HY => conn'.baseURI = HY
       /\ ConnectFetchInfo(TRUE) =>
             requests'[Len(requests')].url = conn.baseURI \o <<"/">>
       /\ ConnectFetchAllDatabases(TRUE) =>
             requests'[Len(requests')].url =
                conn.baseURI \o <<"/", "_", "a", "l", "l", "_", "d", "b", "s">>]_vars

\* the Connect was given http://y// and the fetchAllDatabases called after
\* that is in flight to http://y//_all_dbs
C15_Witness ==
    /\ sets >= 1
    /\ conn.baseURI = HY \o <<"/">>
    /\ last.op = "fetchAllDatabases"
    /\ requests[Len(requests)].url =
          HY \o <<"/", "/", "_", "a", "l", "l", "_", "d", "b", "s">>

\* C16: remove(options) issues no request, fires no event, logs no error,
\* returns nothing and leaves every field of the document as it was; and no
\* step of any operation fires the `deleted` event
C16_RemoveDoesNothing ==
    [][/\ \A j \in 1..Len(docs), o \in Options :
             DocumentRemove(j, o) =>
                /\ last'.fired = <<>>
                /\ last'.logs = 0
                /\ last'.nreq = 0
                /\ last'.ret = RetUndefined
                /\ requests' = requests /\ issued' = issued
                /\ docs' = docs
       /\ \A k \in 1..Len(last'.fired) : last'.fired[k].type # EVENT_DELETED]_vars

\* remove() has just returned on a document that holds opened data
C16_Witness ==
    /\ last.op = "remove"
    /\ last.fired = <<>>
    /\ docs[last.ent[2]].data = Some(BodyDoc)

\* C17: a request carries the URL and the parameters its entity had when it
\* was issued: a step that delivers nothing (a set() in particular) leaves
\* every request in flight exactly as it was, and a fetchInfo, open or
\* fetchData called afterwards is addressed to the entity's path at that
\* moment, fetchData with every view parameter that then has a value
C17_RequestIsSnapshot ==
    [][/\ delivered' = delivered =>
             /\ Len(requests') >= Len(requests)
             /\ SubSeq(requests', 1, Len(requests)) = requests
       /\ sets' # sets => requests' = requests
       /\ \A i \in 1..Len(dbs) :
             DBFetchInfo(i) => requests'[Len(requests')].url = dbs[i]._uri
       /\ \A j \in 1..Len(docs) :
             DocumentOpen(j, None) => requests'[Len(requests')].url = docs[j]._uri
       /\ \A i \in 1..Len(views) :
             ViewFetchData(i) =>
                LET r == requests'[Len(requests')]
                IN  /\ r.url = views[i]._uri
                    /\ \A p \in ViewParams :
                          views[i].params[p] # None =>
                             /\ p \in SentKeys(r)
                             /\ SentVal(r, p) = Get(views[i].params[p])]_vars

\* two fetchInfo requests of the DB are in flight: the one of its
\* initializer to http://x/d/, and one called after set('name', "e"), to
\* http://x/e/
C17_Witness ==
    /\ last.op = "fetchInfo" /\ last.ent = <<"db", 1>>
    /\ dbs[1]._uri = HX \o <<"/", "e", "/">>
    /\ \E k \in 1..Len(requests) :
          /\ requests[k].ent = <<"db", 1>> /\ requests[k].by = "initializer"
          /\ requests[k].url = HX \o <<"/", "d", "/">>
    /\ requests[Len(requests)].url = HX \o <<"/", "e", "/">>

\* C18, as claimed: a caller cannot supply the document's data (set('data')
\* stores nothing), and a save() issues its PUT only after the successful
\* response of an open of the document has been delivered
C18_AsClaimed ==
    [][/\ \A j \in 1..Len(docs), val \in Bodies :
             DocumentSetData(j, val) => docs'[j].data = docs[j].data
       /\ \A j \in 1..Len(docs) :
             (DocumentSave(j, None) /\ issued' = issued + 1) =>
                delivered >= 1]_vars

\* the field StoredField names, as it is after the step
StoredFieldAfter(ent, op) ==
    CASE ent[1] = "connect" /\ op = "fetchInfo" -> conn'.info
      [] ent[1] = "connect" /\ op = "fetchAllDatabases" -> conn'.databases
      [] ent[1] = "db" /\ op = "fetchInfo" -> dbs'[ent[2]].info
      [] ent[1] = "db" /\ op = "fetchAllDocuments" -> dbs'[ent[2]].documents
      [] ent[1] = "document" /\ op = "fetchInfo" -> docs'[ent[2]].info
      [] ent[1] = "document" /\ op = "open" -> docs'[ent[2]].data
      [] ent[1] = "view" /\ op = "fetchData" -> views'[ent[2]].data

\* C19, as claimed: whichever request in flight is answered, and whatever
\* the entity's path has become since the request was issued, the success
\* callback of a fetch stores the delivered body in the entity's field for
\* that fetch, so that of two fetches of one kind the body delivered last
\* is the one that stays
C19_AsClaimed ==
    [][\A k \in 1..Len(requests), b \in Bodies :
          (DeliverSuccess(k, b) /\ requests[k].op \in FetchOps) =>
             StoredFieldAfter(requests[k].ent, requests[k].op) = Some(b)]_vars

====
